---- MODULE Spec2Model ----
(***************************************************************************)
(* btk: relay of a USB HID keyboard to a Bluetooth host.                   *)
(*                                                                         *)
(* The model follows package btk's Keyboard (Connect, handleHandshake,     *)
(* Disconnect, HandleHID), the L2CAP socket wrapper Bluetooth (Read,       *)
(* Write, Close and its per-socket mutex), the broker callbacks of         *)
(* HidProfile and the event loop of main.  Goroutines are processes with a *)
(* program counter; a step is the code between two points where another    *)
(* goroutine can observe or block it.  A Go panic that nothing recovers    *)
(* ends the process: panicked becomes TRUE and nothing moves any more.     *)
(***************************************************************************)
EXTENDS Integers, Sequences, FiniteSets, TLC

\* ---------------------------------------------------------------- bounds
\* Inputs the environment gives the program during one run: connections
\* and disconnection requests the broker delivers, control-channel messages
\* the remote hosts send and reports the USB keyboard yields, counted
\* together.
MaxEvents == 3
\* Distinct remote devices (dbus object paths), numbered from 1.
NumDevs == 2
\* Longest USB report.
MaxReportLen == 2
\* Goroutines that may call Stop.
NumStoppers == 2
\* Transient results (EAGAIN, ECONNABORTED) the kernel gives one Accept
\* before its final answer.
MaxRetries == 2

\* ------------------------------------------------------------- constants
hidpHeaderTransMask == 240
hidpTransHandshake == 0
hidpTransSetProtocol == 96
hidpTransData == 160
hidpHshkSuccessful == 0
hidpHshkErrUnknown == 14

\* The two hello frames Connect sends, and the interrupt-channel header.
Hello1 == <<161, 19, 3>>
Hello2 == <<161, 19, 2>>
HidHeader == <<161>>

\* -------------------------------------------------------------- universe
\* Every connection makes a new Client, numbered in the order of arrival.
ClientIds == 1..MaxEvents
Devs == 1..NumDevs
\* Process ids: 0 is main's event loop, c > 0 the handshake goroutine
\* started by the Connect of client c.
MainProc == 0
Procs == 0..MaxEvents
\* No goroutine holds the mutex.
Free == -1
\* The callers of Stop.
Stoppers == 1..NumStoppers

\* First bytes of the control messages a host may send: every transaction
\* type (high nibble) with the low nibble clear and with it all set, and
\* every byte of the SET_PROTOCOL (0x6X) and DATA (0xAX) types.
MsgBytes == {16 * n + l : n \in 0..15, l \in {0, 15}} \cup 96..111 \cup 160..175
\* The USB reports read: one of each length, its bytes all different.
Reports == {[i \in 1..n |-> 4 * i] : n \in 1..MaxReportLen}

\* A *Client: Dev is the device identity; Sintr, Sctrl and Done name the
\* client's sockets and channel, 0 for a nil field.
Client(d, c) == [Dev |-> d, Sintr |-> c, Sctrl |-> c, Done |-> c]
\* The nil *Client.
NilClient == [Dev |-> 0, Sintr |-> 0, Sctrl |-> 0, Done |-> 0]
\* RequestDisconnection's &Client{Dev: dev}: only the identity is set.
IdentityClient(d) == [Dev |-> d, Sintr |-> 0, Sctrl |-> 0, Done |-> 0]
\* The done signal the broker gives a new client.
FreshDone == "open"

\* A Bluetooth socket: its descriptor, who holds bt.mu, how many times the
\* kernel close was called on the descriptor, and the buffers given to Write.
\* What a call returned: op is "Connect" or "Disconnect"; err is "nil" or
\* names the error.
Ret(op, err) == [op |-> op, err |-> err]
NoRet == Ret("none", "none")

NewSocket(n) == [fd |-> n, mu |-> Free, closes |-> 0, written |-> <<>>]

\* A NewConnection call: where it is, the device it was called for, the
\* transient results its Accept has had, the error Accept returned, its
\* local variables sintr and sctrl (0 for nil) and what it returned.
NoCall == [pc |-> "none", dev |-> 0, tries |-> 0, err |-> "nil", sintr |-> 0,
           sctrl |-> 0, ret |-> "none"]
\* The errors of the kernel accept that make Accept try again.
Transient == {"EAGAIN", "ECONNABORTED"}

VARIABLES
  kbClient,   \* Keyboard.client, the active-client slot
  kbMu,       \* holder of the Keyboard's mutex
  nclients,   \* clients the broker has delivered so far
  done,       \* done[c]: the channel Client c's Done, "open" or "closed"
  ctrlSock,   \* ctrlSock[c]: the socket Client c's Sctrl points to
  intrSock,   \* intrSock[c]: the socket Client c's Sintr points to
  pc,         \* pc[p]: where process p is
  arg,        \* arg[p]: the client p passed to Connect or Disconnect
  ret,        \* ret[p]: the call p last returned from and its error
  hsClient,   \* hsClient[c]: handleHandshake's local variable client
  r0,         \* r0[c]: r[0] of the message the loop has read
  events,     \* inputs the environment has given so far
  hidPc,      \* where HandleHID is
  hidState,   \* HandleHID's local variable state
  hidClient,  \* HandleHID's local variable client
  clears,     \* clears[c]: times Disconnect's deferred function emptied a slot holding c
  panicked,   \* a goroutine panicked: the process is gone
  once,       \* Keyboard.once: "fresh", "running" (its function runs) or "done"
  devCloses,  \* times kb.dev.Close() was called
  stopPc,     \* stopPc[s]: where caller s of Stop is
  call,       \* call[k]: the k-th NewConnection call of the broker
  acceptMu,   \* holder of the process-wide mutex mu of Accept
  listener,   \* HidProfile.connIntr, the listening interrupt socket
  saddr,      \* a sockaddrL2: PSM, Bdaddr and the raw structure
  rAddr,      \* the sockaddrL2 built from a raw structure, or NoAddr
  addrPc      \* "new", "packed" or "unpacked"

\* The state of the relay between host and keyboard.
kbVars == <<kbClient, kbMu, nclients, done, ctrlSock, intrSock, pc, arg, ret,
            hsClient, r0, events, hidPc, hidState, hidClient, clears, panicked>>

stopVars == <<once, devCloses, stopPc>>
\* What Connect, Disconnect and the two loops never write.
brokerVars == <<call, acceptMu, listener>>
svcVars == <<stopVars, brokerVars>>
\* An L2CAP socket address, the raw structure included, and the address
\* unpacked from it.
addrVars == <<saddr, rAddr, addrPc>>

vars == <<kbVars, svcVars, addrVars>>

envVars == <<nclients, events>>
hidVars == <<hidPc, hidState, hidClient>>
hsVars == <<hsClient, r0>>

\* ---------------------------------------------------------- bit operators
RECURSIVE BitAnd(_, _)
BitAnd(a, b) ==
  IF a = 0 \/ b = 0 THEN 0
  ELSE (a % 2) * (b % 2) + 2 * BitAnd(a \div 2, b \div 2)

RECURSIVE BitOr(_, _)
BitOr(a, b) ==
  IF a = 0 THEN b
  ELSE IF b = 0 THEN a
  ELSE (IF a % 2 = 1 \/ b % 2 = 1 THEN 1 ELSE 0) + 2 * BitOr(a \div 2, b \div 2)

\* ----------------------------------------------------------------- socket
\* Operations on a socket that do not take its mutex.
MuNotTaken(s) == TRUE

\* bt.mu.Lock() at the head of Read, Write, Close and SetBlocking goes
\* through when no operation holds the socket's mutex.
MuAvailable(s) == s.mu = Free

\* Bluetooth.Close: EINVAL without a kernel call when the descriptor is
\* unset, the kernel close otherwise.
BtCloseCalls(s) == IF s.fd <= 0 THEN s ELSE [s EXCEPT !.closes = @ + 1]
\* Whether that Close fails: always when the descriptor is unset or was
\* closed before, else when the kernel says so (kernelOk = FALSE).
BtCloseFails(s, kernelOk) == s.fd <= 0 \/ s.closes > 0 \/ ~kernelOk
\* Bluetooth.Write of buffer d.
BtWrite(s, d) == [s EXCEPT !.written = Append(@, d)]
BtWriteFails(s, kernelOk) == s.closes > 0 \/ ~kernelOk
\* Successive Writes of the buffers of ds, in order.
BtWriteAll(s, ds) == [s EXCEPT !.written = @ \o ds]

\* ---------------------------------------------------------------- address
AF_BLUETOOTH == 31
PSMCTRL == 17
PSMINTR == 19

\* A [6]uint8 as a sequence.
Bdaddr6(a, b, c, d, e, f) == <<a, b, c, d, e, f>>
ZeroBdaddr == Bdaddr6(0, 0, 0, 0, 0, 0)

\* rawSockaddrL2{}: the zero value.
ZeroRaw == [Family |-> 0, Psm |-> 0, Bdaddr |-> ZeroBdaddr]

\* sockaddrL2{PSM: psm, Bdaddr: bdaddr}, raw not yet filled.
SockaddrL2(psm, bdaddr) == [PSM |-> psm, Bdaddr |-> bdaddr, raw |-> ZeroRaw]
NoAddr == SockaddrL2(0, <<>>)

\* The PSMs and device addresses the round trip is tried with.
PSMs == {0, 1, PSMCTRL, PSMINTR, 255, 256, 4864, 65535}
Bdaddrs == {Bdaddr6(1, 2, 3, 4, 5, 6), Bdaddr6(6, 5, 4, 3, 2, 1), ZeroBdaddr,
            Bdaddr6(255, 255, 255, 255, 255, 255), Bdaddr6(0, 0, 0, 0, 0, 1),
            Bdaddr6(1, 0, 0, 0, 0, 0), Bdaddr6(170, 187, 204, 221, 238, 255)}

\* A packing that stores the device address in the opposite byte order.
PackReversed(sa) ==
  [Family |-> AF_BLUETOOTH,
   Psm    |-> sa.PSM % 65536,
   Bdaddr |-> [i \in 1..6 |-> sa.Bdaddr[7 - i]]]

\* The raw structure sockaddr() fills in: the family, uint16(sa.PSM) and a
\* copy of the six address bytes.
Pack(sa) ==
  [Family |-> AF_BLUETOOTH,
   Psm    |-> sa.PSM % 65536,
   Bdaddr |-> [i \in 1..6 |-> sa.Bdaddr[i]]]

\* The sockaddrL2 Accept builds from the raw structure the kernel filled in.
Unpack(raw) == SockaddrL2(raw.Psm, [i \in 1..6 |-> raw.Bdaddr[i]])

\* sa.sockaddr()
Sockaddr ==
  /\ addrPc = "new"
  /\ saddr' = [saddr EXCEPT !.raw = Pack(saddr)]
  /\ addrPc' = "packed"
  /\ UNCHANGED <<kbVars, svcVars, rAddr>>

\* rAddr = &sockaddrL2{PSM: raddr.Psm, Bdaddr: raddr.Bdaddr}, for the raw
\* structure of saddr.
AcceptUnpack ==
  /\ addrPc = "packed"
  /\ rAddr' = Unpack(saddr.raw)
  /\ addrPc' = "unpacked"
  /\ UNCHANGED <<kbVars, svcVars, saddr>>

\* ------------------------------------------------------------------- Init
\* The Keyboard, the HidProfile and the relay after construction.
ProgramInit ==
  /\ kbClient = NilClient
  /\ kbMu = Free
  /\ nclients = 0
  /\ done = [c \in ClientIds |-> FreshDone]
  /\ ctrlSock = [c \in ClientIds |-> NewSocket(2 * c + 2)]
  /\ intrSock = [c \in ClientIds |-> NewSocket(2 * c + 3)]
  /\ pc = [p \in Procs |-> IF p = MainProc THEN "idle" ELSE "none"]
  /\ arg = [p \in Procs |-> NilClient]
  /\ ret = [p \in Procs |-> NoRet]
  /\ hsClient = [c \in ClientIds |-> NilClient]
  /\ r0 = [c \in ClientIds |-> 0]
  /\ events = 0
  /\ hidPc = "read"
  /\ hidState = <<>>
  /\ hidClient = NilClient
  /\ clears = [c \in ClientIds |-> 0]
  /\ panicked = FALSE
  /\ once = "fresh"
  /\ devCloses = 0
  /\ stopPc = [s \in Stoppers |-> "idle"]
  /\ call = [k \in ClientIds |-> NoCall]
  /\ acceptMu = Free
  /\ listener = NewSocket(3)

\* The program after construction: the address in play is the listener's,
\* bound by ListenBluetooth(PSMINTR, 1, false).
Init ==
  /\ ProgramInit
  /\ LET sa == SockaddrL2(PSMINTR, ZeroBdaddr)
     IN saddr = [sa EXCEPT !.raw = Pack(sa)]
  /\ rAddr = NoAddr
  /\ addrPc = "bound"

\* Any address, before it is packed.
AddrInit ==
  /\ ProgramInit
  /\ \E psm \in PSMs, bdaddr \in Bdaddrs : saddr = SockaddrL2(psm, bdaddr)
  /\ rAddr = NoAddr
  /\ addrPc = "new"

AddrNext ==
  \/ Sockaddr
  \/ AcceptUnpack

\* The packing and unpacking of addresses on their own.
AddrSpec == AddrInit /\ [][AddrNext]_vars

\* ------------------------------------------------------------- the broker
\* The bus calls NewConnection(dev, fd) for a host that opened the control
\* channel; the call runs on a goroutine of its own.  It is the k-th call.
\* Its first statement is p.connIntr.Accept(), which starts with mu.Lock():
\* the call has the mutex at once when it is free, and waits for it else.
NewConnectionCall(d) ==
  /\ ~panicked
  /\ events < MaxEvents
  /\ events' = events + 1
  /\ nclients' = nclients + 1
  /\ LET k == nclients + 1
     IN IF acceptMu = Free
        THEN /\ acceptMu' = k
             /\ call' = [call EXCEPT ![k] = [NoCall EXCEPT !.pc = "accept", !.dev = d]]
        ELSE /\ call' = [call EXCEPT ![k] = [NoCall EXCEPT !.pc = "lock", !.dev = d]]
             /\ UNCHANGED acceptMu
  /\ UNCHANGED <<kbClient, kbMu, done, ctrlSock, intrSock, pc, arg, ret,
                 hsVars, hidVars, clears, panicked, stopVars, listener>>
  /\ UNCHANGED addrVars

\* A call that waited for mu gets it; Accept keeps it until it returns.
AcceptLock(k) ==
  /\ ~panicked
  /\ call[k].pc = "lock"
  /\ acceptMu = Free
  /\ acceptMu' = k
  /\ call' = [call EXCEPT ![k].pc = "accept"]
  /\ UNCHANGED <<kbVars, stopVars, listener>>
  /\ UNCHANGED addrVars

\* An Accept that gives up when the peer aborted.
AcceptOnTransientAborts(c, e) ==
  IF e = "ECONNABORTED"
  THEN [c EXCEPT !.pc = "failed", !.tries = 0, !.err = e]
  ELSE [c EXCEPT !.tries = @ + 1]

\* Accept after a transient error of the kernel accept: `continue`, after a
\* sleep for EAGAIN and at once for ECONNABORTED.
AcceptOnTransient(c, e) == [c EXCEPT !.tries = @ + 1]

\* The kernel accept fails with EAGAIN or ECONNABORTED.
AcceptRetry(k, e) ==
  /\ ~panicked
  /\ call[k].pc = "accept"
  /\ listener.closes = 0
  /\ call[k].tries < MaxRetries
  /\ call' = [call EXCEPT ![k] = AcceptOnTransient(@, e)]
  /\ acceptMu' = IF call'[k].pc = "accept" THEN acceptMu ELSE Free
  /\ UNCHANGED <<kbVars, stopVars, listener>>
  /\ UNCHANGED addrVars

\* The kernel accept fails with any other error (always, once the listener
\* is closed): unix.Close(rFd) of no descriptor, and Accept returns the error.
AcceptFatal(k) ==
  /\ ~panicked
  /\ call[k].pc = "accept"
  /\ call' = [call EXCEPT ![k].pc = "failed", ![k].tries = 0, ![k].err = "EIO"]
  /\ acceptMu' = Free
  /\ UNCHANGED <<kbVars, stopVars, listener>>
  /\ UNCHANGED addrVars

\* The kernel accept succeeds: rbt wraps the new descriptor.
AcceptOk(k) ==
  /\ ~panicked
  /\ call[k].pc = "accept"
  /\ listener.closes = 0
  /\ call' = [call EXCEPT ![k].pc = "setblock", ![k].sintr = k]
  /\ UNCHANGED <<kbVars, stopVars, acceptMu, listener>>
  /\ UNCHANGED addrVars

\* rbt.SetBlocking(false): on failure bt.Close(), rbt.Close() and the error;
\* else Accept returns rbt.  The deferred mu.Unlock() runs either way.
AcceptSetBlocking(k, ok) ==
  /\ ~panicked
  /\ call[k].pc = "setblock"
  /\ MuAvailable(intrSock[k])
  /\ MuAvailable(listener)
  /\ acceptMu' = Free
  /\ IF ok
     THEN /\ call' = [call EXCEPT ![k].pc = "wrap"]
          /\ UNCHANGED <<listener, intrSock>>
     ELSE /\ call' = [call EXCEPT ![k].pc = "failed", ![k].tries = 0,
                                   ![k].err = "failed in SetBlocking",
                                   ![k].sintr = 0]
          /\ listener' = BtCloseCalls(listener)
          /\ intrSock' = [intrSock EXCEPT ![k] = BtCloseCalls(@)]
  /\ UNCHANGED <<kbClient, kbMu, envVars, done, ctrlSock, pc, arg, ret,
                 hsVars, hidVars, clears, panicked, stopVars>>
  /\ UNCHANGED addrVars

\* A NewConnection that leaves the listener open when Accept failed.
ListenerLeftOpen(l) == l

\* What NewConnection does to the listener when Accept failed:
\* p.connIntr.Close().
ListenerAfterFailedAccept(l) == BtCloseCalls(l)

\* NewConnection after a failed Accept: p.connIntr.Close() and the error is
\* returned to the bus.
NewConnectionFail(k) ==
  /\ ~panicked
  /\ call[k].pc = "failed"
  /\ MuAvailable(listener)
  /\ listener' = ListenerAfterFailedAccept(listener)
  /\ call' = [call EXCEPT ![k].pc = "returned", ![k].err = "nil",
                           ![k].ret = "accept failed"]
  /\ UNCHANGED <<kbVars, stopVars, acceptMu>>
  /\ UNCHANGED addrVars

\* sctrl, err := NewBluetoothSocket(int(fd)).  When getsockname fails the
\* descriptor is closed by NewBluetoothSocket and again by NewConnection,
\* and the error is returned to the bus.
NewSocketWrap(k, ok) ==
  /\ ~panicked
  /\ call[k].pc = "wrap"
  /\ IF ok
     THEN /\ call' = [call EXCEPT ![k].pc = "send", ![k].tries = 0,
                                   ![k].sctrl = k]
          /\ UNCHANGED ctrlSock
     ELSE /\ call' = [call EXCEPT ![k].pc = "returned", ![k].tries = 0,
                                   ![k].sintr = 0,
                                   ![k].ret = "socket failed"]
          /\ ctrlSock' = [ctrlSock EXCEPT ![k].closes = @ + 2]
  /\ UNCHANGED <<kbClient, kbMu, envVars, done, intrSock, pc, arg, ret,
                 hsVars, hidVars, clears, panicked, stopVars, acceptMu,
                 listener>>
  /\ UNCHANGED addrVars

\* The done signal of the client of call k.
PublishedDone(k) == k

\* A client published without its interrupt socket.
NewConnectionClientNoIntr(k) ==
  [Dev |-> call[k].dev, Sintr |-> 0, Sctrl |-> call[k].sctrl,
   Done |-> PublishedDone(k)]

\* The client NewConnection sends on p.connection: dev, sintr, sctrl.
NewConnectionClient(k) ==
  [Dev |-> call[k].dev, Sintr |-> call[k].sintr, Sctrl |-> call[k].sctrl,
   Done |-> PublishedDone(k)]

\* ------------------------------------------------------------ main's loop
\* NewConnection hands a new client to main: `case client :=
\* <-hidp.Connection()`.  The channel is unbuffered, so the broker's send and
\* main's receive are one step.
MainRecvConnection(d) ==
  /\ ~panicked
  /\ pc[MainProc] = "idle"
  /\ \E k \in ClientIds :
       /\ call[k].pc = "send"
       /\ call[k].dev = d
       /\ arg' = [arg EXCEPT ![MainProc] = NewConnectionClient(k)]
       /\ call' = [call EXCEPT ![k].pc = "returned", ![k].ret = "nil"]
  /\ pc' = [pc EXCEPT ![MainProc] = "connect"]
  /\ ret' = [ret EXCEPT ![MainProc] = NoRet]
  /\ UNCHANGED <<kbClient, kbMu, envVars, done, ctrlSock, intrSock, hsVars,
                 hidVars, clears, panicked, stopVars, acceptMu, listener>>
  /\ UNCHANGED addrVars

\* RequestDisconnection hands an identity-only client to main: `case client
\* := <-hidp.Disconnection()`, which calls kb.Disconnect(client).
MainRecvDisconnection(d) ==
  /\ ~panicked
  /\ pc[MainProc] = "idle"
  /\ events < MaxEvents
  /\ events' = events + 1
  /\ arg' = [arg EXCEPT ![MainProc] = IdentityClient(d)]
  /\ pc' = [pc EXCEPT ![MainProc] = "d_lock"]
  /\ ret' = [ret EXCEPT ![MainProc] = NoRet]
  /\ UNCHANGED <<svcVars, kbClient, kbMu, nclients, done, ctrlSock, intrSock, hsVars,
                 hidVars, clears, panicked>>
  /\ UNCHANGED addrVars

\* A Connect that never finds the keyboard in use.
InUseNever(k) == FALSE

\* Connect's test `kb.client != nil`.
InUse(k) == k # NilClient

\* The hello frames in the wrong order.
HelloFramesSwapped(sent) ==
  IF sent = 0 THEN <<Hello2>> ELSE <<Hello2, Hello1>>

\* The frames Connect writes to client.Sctrl, in order, when the kernel
\* accepts the first `sent` of them (a failed write is the last one tried).
HelloFrames(sent) ==
  IF sent = 0 THEN <<Hello1>> ELSE <<Hello1, Hello2>>

\* What Connect returns for that outcome.
ConnectResult(sent) ==
  IF sent = 0 THEN "hello1" ELSE IF sent = 1 THEN "hello2" ELSE "nil"

\* Keyboard.Connect, called by main with the client it received.  The whole
\* body runs under kb's mutex; the new client's control socket is known to
\* no other goroutine yet.
Connect ==
  /\ ~panicked
  /\ pc[MainProc] = "connect"
  /\ kbMu = Free
  /\ LET client == arg[MainProc]
         c == client.Sctrl
     IN IF InUse(kbClient)
        THEN /\ ret' = [ret EXCEPT ![MainProc] = Ret("Connect", "inuse")]
             /\ pc' = [pc EXCEPT ![MainProc] = "reject"]
             /\ UNCHANGED <<kbClient, ctrlSock, arg>>
        ELSE \E sent \in 0..2 :
             /\ MuAvailable(ctrlSock[c])
             /\ (sent > 0 => ~BtWriteFails(ctrlSock[c], TRUE))
             /\ kbClient' = client
             /\ ctrlSock' = [ctrlSock EXCEPT ![c] =
                               BtWriteAll(@, HelloFrames(sent))]
             /\ ret' = [ret EXCEPT ![MainProc] = Ret("Connect", ConnectResult(sent))]
             /\ pc' = IF sent = 2
                      THEN [pc EXCEPT ![MainProc] = "idle", ![c] = "start"]
                      ELSE [pc EXCEPT ![MainProc] = "reject"]
             /\ arg' = IF sent = 2
                       THEN [arg EXCEPT ![MainProc] = NilClient]
                       ELSE arg
  /\ UNCHANGED <<svcVars, kbMu, envVars, done, intrSock, hsVars, hidVars, clears,
                 panicked>>
  /\ UNCHANGED addrVars

\* main after a failed Connect: client.Sctrl.Close(); client.Sintr.Close().
MainReject ==
  /\ ~panicked
  /\ pc[MainProc] = "reject"
  /\ LET c == arg[MainProc].Sctrl
     IN /\ MuAvailable(ctrlSock[c])
        /\ MuAvailable(intrSock[c])
        /\ ctrlSock' = [ctrlSock EXCEPT ![c] = BtCloseCalls(@)]
        /\ intrSock' = [intrSock EXCEPT ![c] = BtCloseCalls(@)]
  /\ pc' = [pc EXCEPT ![MainProc] = "idle"]
  /\ arg' = [arg EXCEPT ![MainProc] = NilClient]
  /\ UNCHANGED <<svcVars, kbClient, kbMu, envVars, done, ret, hsVars, hidVars,
                 clears, panicked>>
  /\ UNCHANGED addrVars

\* -------------------------------------------------------------- Disconnect
\* Where a process goes on when its Disconnect returns: main to its select,
\* a handshake loop to the top of its for loop (`continue`).
AfterDisconnect(p) == IF p = MainProc THEN "idle" ELSE "select"

\* A Disconnect that does not compare identities.
NotTheActiveNilOnly(client, k) == client = NilClient

\* Disconnect's test `client == nil || client.Dev != kb.client.Dev`, for a
\* non-nil kb.client.
NotTheActive(client, k) == client = NilClient \/ client.Dev # k.Dev

\* A Disconnect that empties the slot only when both closes succeeded.
DeferredSlotOnCleanClose(k, err) == IF err = "nil" THEN NilClient ELSE k

\* What Disconnect's deferred function leaves in the slot, whatever error
\* err the body is returning.
DeferredSlot(k, err) == NilClient

\* kb.Lock() and the test.  Reading kb.client.Dev with no active client
\* dereferences nil: the goroutine panics (the deferred Unlock runs) and the
\* process dies.
DisconnectLock(p) ==
  /\ ~panicked
  /\ pc[p] = "d_lock"
  /\ kbMu = Free
  /\ LET client == arg[p]
     IN IF client # NilClient /\ kbClient = NilClient
        THEN /\ panicked' = TRUE
             /\ UNCHANGED <<kbMu, pc, ret, arg>>
        ELSE IF NotTheActive(client, kbClient)
        THEN /\ ret' = [ret EXCEPT ![p] = Ret("Disconnect", "nil")]
             /\ pc' = [pc EXCEPT ![p] = AfterDisconnect(p)]
             /\ arg' = [arg EXCEPT ![p] = NilClient]
             /\ UNCHANGED <<kbMu, panicked>>
        ELSE /\ kbMu' = p
             /\ pc' = [pc EXCEPT ![p] = "d_ctrl"]
             /\ UNCHANGED <<ret, panicked, arg>>
  /\ UNCHANGED <<svcVars, kbClient, envVars, done, ctrlSock, intrSock, hsVars,
                 hidVars, clears>>
  /\ UNCHANGED addrVars

\* The deferred function and the deferred Unlock, run by a panic inside
\* Disconnect's body: close(kb.client.Done); kb.client = nil.
DisconnectPanic(p) ==
  /\ panicked' = TRUE
  /\ kbMu' = Free
  /\ IF kbClient.Done # 0 /\ done[kbClient.Done] = "open"
     THEN /\ done' = [done EXCEPT ![kbClient.Done] = "closed"]
          /\ kbClient' = DeferredSlot(kbClient, "panic")
          /\ clears' = [clears EXCEPT ![kbClient.Done] = @ + 1]
     ELSE UNCHANGED <<done, kbClient, clears>>

\* client.Sctrl.Close().  A nil Sctrl panics inside Close; Close waits for
\* the socket's mutex.
DisconnectCloseCtrl(p) ==
  /\ ~panicked
  /\ pc[p] = "d_ctrl"
  /\ LET s == arg[p].Sctrl
     IN IF s = 0
        THEN /\ DisconnectPanic(p)
             /\ UNCHANGED <<ctrlSock, pc, ret>>
        ELSE /\ MuAvailable(ctrlSock[s])
             /\ \E kernelOk \in BOOLEAN :
                  /\ ctrlSock' = [ctrlSock EXCEPT ![s] = BtCloseCalls(@)]
                  /\ IF BtCloseFails(ctrlSock[s], kernelOk)
                     THEN /\ ret' = [ret EXCEPT ![p] = Ret("Disconnect", "ctrl")]
                          /\ pc' = [pc EXCEPT ![p] = "d_defer"]
                     ELSE /\ pc' = [pc EXCEPT ![p] = "d_intr"]
                          /\ UNCHANGED ret
             /\ UNCHANGED <<kbClient, kbMu, done, clears, panicked>>
  /\ UNCHANGED <<svcVars, envVars, intrSock, arg, hsVars, hidVars>>
  /\ UNCHANGED addrVars

\* return client.Sintr.Close()
DisconnectCloseIntr(p) ==
  /\ ~panicked
  /\ pc[p] = "d_intr"
  /\ LET s == arg[p].Sintr
     IN IF s = 0
        THEN /\ DisconnectPanic(p)
             /\ UNCHANGED <<intrSock, pc, ret>>
        ELSE /\ MuAvailable(intrSock[s])
             /\ \E kernelOk \in BOOLEAN :
                  /\ intrSock' = [intrSock EXCEPT ![s] = BtCloseCalls(@)]
                  /\ ret' = [ret EXCEPT ![p] =
                               IF BtCloseFails(intrSock[s], kernelOk)
                               THEN Ret("Disconnect", "intr")
                               ELSE Ret("Disconnect", "nil")]
             /\ pc' = [pc EXCEPT ![p] = "d_defer"]
             /\ UNCHANGED <<kbClient, kbMu, done, clears, panicked>>
  /\ UNCHANGED <<svcVars, envVars, ctrlSock, arg, hsVars, hidVars>>
  /\ UNCHANGED addrVars

\* The deferred function, then the deferred Unlock, on a normal return.
\* Closing a nil or an already closed channel panics.
DisconnectDefer(p) ==
  /\ ~panicked
  /\ pc[p] = "d_defer"
  /\ IF kbClient.Done # 0 /\ done[kbClient.Done] = "open"
     THEN /\ done' = [done EXCEPT ![kbClient.Done] = "closed"]
          /\ kbClient' = DeferredSlot(kbClient, ret[p].err)
          /\ clears' = [clears EXCEPT ![kbClient.Done] = @ + 1]
          /\ pc' = [pc EXCEPT ![p] = AfterDisconnect(p)]
          /\ arg' = [arg EXCEPT ![p] = NilClient]
          /\ UNCHANGED panicked
     ELSE /\ panicked' = TRUE
          /\ UNCHANGED <<done, kbClient, clears, pc, arg>>
  /\ kbMu' = Free
  /\ UNCHANGED <<svcVars, envVars, ctrlSock, intrSock, ret, hsVars, hidVars>>
  /\ UNCHANGED addrVars

\* The goroutine that called Connect(client) calls kb.Disconnect(client)
\* with the same *Client.
OwnerDisconnect(c) ==
  /\ ~panicked
  /\ pc[MainProc] = "idle"
  /\ pc[c] # "none"
  /\ events < MaxEvents
  /\ events' = events + 1
  /\ arg' = [arg EXCEPT ![MainProc] = Client(call[c].dev, c)]
  /\ pc' = [pc EXCEPT ![MainProc] = "d_lock"]
  /\ UNCHANGED <<svcVars, kbClient, kbMu, nclients, done, ctrlSock, intrSock, ret,
                 hsVars, hidVars, clears, panicked>>
  /\ UNCHANGED addrVars

\* --------------------------------------------------------- handleHandshake
\* The goroutine's first statement, `client := kb.client`, read without the
\* mutex; a nil client ends the goroutine.
HandshakeStart(c) ==
  /\ ~panicked
  /\ pc[c] = "start"
  /\ hsClient' = [hsClient EXCEPT ![c] = kbClient]
  /\ pc' = [pc EXCEPT ![c] = IF kbClient = NilClient THEN "exited" ELSE "select"]
  /\ UNCHANGED <<svcVars, kbClient, kbMu, envVars, done, ctrlSock, intrSock, arg, ret,
                 r0, hidVars, clears, panicked>>
  /\ UNCHANGED addrVars

\* select { case <-client.Done: return; default: }, then r := make([]byte,
\* BUFSIZE), a buffer of zeros.  A nil channel is never ready.
HandshakeSelect(c) ==
  /\ ~panicked
  /\ pc[c] = "select"
  /\ LET ch == hsClient[c].Done
     IN IF ch # 0 /\ done[ch] = "closed"
        THEN /\ pc' = [pc EXCEPT ![c] = "exited"]
             /\ hsClient' = [hsClient EXCEPT ![c] = NilClient]
        ELSE /\ pc' = [pc EXCEPT ![c] = "read"]
             /\ UNCHANGED hsClient
  /\ ret' = [ret EXCEPT ![c] = NoRet]
  /\ r0' = [r0 EXCEPT ![c] = 0]
  /\ UNCHANGED <<svcVars, kbClient, kbMu, envVars, done, ctrlSock, intrSock, arg,
                 hidVars, clears, panicked>>
  /\ UNCHANGED addrVars

\* client.Sctrl.Read(r) takes the socket's mutex and keeps it while it
\* retries on EAGAIN.
HandshakeReadLock(c) ==
  /\ ~panicked
  /\ pc[c] = "read"
  /\ LET s == hsClient[c].Sctrl
     IN /\ MuAvailable(ctrlSock[s])
        /\ ctrlSock' = [ctrlSock EXCEPT ![s].mu = c]
  /\ pc' = [pc EXCEPT ![c] = "inread"]
  /\ UNCHANGED <<svcVars, kbClient, kbMu, envVars, done, intrSock, arg, ret, hsVars,
                 hidVars, clears, panicked>>
  /\ UNCHANGED addrVars

\* Read returns a message whose first byte is b: the loop goes on to answer.
HandshakeReadData(c, b) ==
  /\ ~panicked
  /\ pc[c] = "inread"
  /\ events < MaxEvents
  /\ LET s == hsClient[c].Sctrl
     IN /\ ctrlSock[s].closes = 0
        /\ ctrlSock' = [ctrlSock EXCEPT ![s].mu = Free]
  /\ r0' = [r0 EXCEPT ![c] = b]
  /\ events' = events + 1
  /\ pc' = [pc EXCEPT ![c] = "dispatch"]
  /\ UNCHANGED <<svcVars, kbClient, kbMu, nclients, done, intrSock, arg, ret, hsClient,
                 hidVars, clears, panicked>>
  /\ UNCHANGED addrVars

\* Read returns an error or fewer than one byte: the loop calls
\* kb.Disconnect(client) and continues.
HandshakeReadError(c) ==
  /\ ~panicked
  /\ pc[c] = "inread"
  /\ LET s == hsClient[c].Sctrl
     IN ctrlSock' = [ctrlSock EXCEPT ![s].mu = Free]
  /\ arg' = [arg EXCEPT ![c] = hsClient[c]]
  /\ pc' = [pc EXCEPT ![c] = "d_lock"]
  /\ UNCHANGED <<svcVars, kbClient, kbMu, envVars, done, intrSock, ret, hsVars,
                 hidVars, clears, panicked>>
  /\ UNCHANGED addrVars

\* The header masked with 0x0f instead of 0xf0.
MsgTypLowNibble(b) == BitAnd(b, 15)

\* r[0] & hidpHeaderTransMask
MsgTyp(b) == BitAnd(b, hidpHeaderTransMask)

\* The switch of handleHandshake: the frames written to the control socket
\* for a message whose first byte is b.
HandshakeReply(b) ==
  IF BitAnd(MsgTyp(b), hidpTransSetProtocol) # 0
  THEN << <<BitOr(hidpTransHandshake, hidpHshkSuccessful)>> >>
  ELSE IF BitAnd(MsgTyp(b), hidpTransData) # 0
  THEN << >>
  ELSE << <<BitOr(hidpTransHandshake, hidpHshkErrUnknown)>> >>

\* The answer to the message read; a failed Write is logged or ignored.
HandshakeDispatch(c) ==
  /\ ~panicked
  /\ pc[c] = "dispatch"
  /\ LET s == hsClient[c].Sctrl
     IN /\ MuAvailable(ctrlSock[s])
        /\ ctrlSock' = [ctrlSock EXCEPT ![s] = BtWriteAll(@, HandshakeReply(r0[c]))]
  /\ pc' = [pc EXCEPT ![c] = "select"]
  /\ UNCHANGED <<svcVars, kbClient, kbMu, envVars, done, intrSock, arg, ret, hsVars,
                 hidVars, clears, panicked>>
  /\ UNCHANGED addrVars

\* --------------------------------------------------------------- HandleHID
\* kb.dev.Read returns a report (a timeout or an error only repeats the
\* read), then client := kb.Client() takes a snapshot of the slot under the
\* mutex; with no client the report is dropped.  The read touches nothing
\* another goroutine sees, so read and snapshot are one step.
HidRead(state) ==
  /\ ~panicked
  /\ hidPc = "read"
  /\ devCloses = 0
  /\ events < MaxEvents
  /\ events' = events + 1
  /\ kbMu = Free
  /\ hidClient' = kbClient
  /\ IF kbClient = NilClient
     THEN hidPc' = "read" /\ hidState' = <<>>
     ELSE hidPc' = "write" /\ hidState' = state
  /\ UNCHANGED <<svcVars, kbClient, kbMu, nclients, done, ctrlSock, intrSock, pc, arg,
                 ret, hsVars, clears, panicked>>
  /\ UNCHANGED addrVars

\* Where HandleHID goes on after a failed read: `continue`, whatever the
\* error was.
HidAfterError == "read"

\* kb.dev.Read returns the error of a device that was closed, and the error
\* is logged.  (The timeout of an idle keyboard takes the same path without
\* the log: it leaves the loop where it is and is no step of its own.)
HidReadFails ==
  /\ ~panicked
  /\ hidPc = "read"
  /\ devCloses > 0
  /\ hidPc' = "failed"
  /\ UNCHANGED <<kbClient, kbMu, envVars, done, ctrlSock, intrSock, pc, arg,
                 ret, hsVars, hidState, hidClient, clears, panicked, svcVars>>
  /\ UNCHANGED addrVars

\* The `continue` after the failed read.
HidContinue ==
  /\ ~panicked
  /\ hidPc = "failed"
  /\ hidPc' = HidAfterError
  /\ UNCHANGED <<kbClient, kbMu, envVars, done, ctrlSock, intrSock, pc, arg,
                 ret, hsVars, hidState, hidClient, clears, panicked, svcVars>>
  /\ UNCHANGED addrVars

\* -------------------------------------------------------------------- Stop
\* A goroutine calls kb.Stop(), for the first time or again.
StopCall(s) ==
  /\ ~panicked
  /\ stopPc[s] \in {"idle", "returned"}
  /\ events < MaxEvents
  /\ events' = events + 1
  /\ stopPc' = [stopPc EXCEPT ![s] = "do"]
  /\ UNCHANGED <<kbClient, kbMu, nclients, done, ctrlSock, intrSock, pc, arg,
                 ret, hsVars, hidVars, clears, panicked, once, devCloses,
                 brokerVars>>
  /\ UNCHANGED addrVars

\* A Stop that runs its function on every call.
OnceRunsAlways(o) == TRUE

\* sync.Once: whether Do runs the function it is given.
OnceRuns(o) == o = "fresh"

\* kb.once.Do(...): the first caller runs the function, a caller that finds
\* it running waits for it, every later caller returns at once.
StopOnce(s) ==
  /\ ~panicked
  /\ stopPc[s] = "do"
  /\ once # "running"
  /\ IF OnceRuns(once)
     THEN /\ once' = "running"
          /\ stopPc' = [stopPc EXCEPT ![s] = "infn"]
     ELSE /\ stopPc' = [stopPc EXCEPT ![s] = "returned"]
          /\ UNCHANGED once
  /\ UNCHANGED <<kbVars, devCloses, brokerVars>>
  /\ UNCHANGED addrVars

\* The function: kb.dev.Close(), a log line, and Do returns.
StopClose(s) ==
  /\ ~panicked
  /\ stopPc[s] = "infn"
  /\ devCloses' = devCloses + 1
  /\ once' = "done"
  /\ stopPc' = [stopPc EXCEPT ![s] = "returned"]
  /\ UNCHANGED <<kbVars, brokerVars>>
  /\ UNCHANGED addrVars

\* The report sent without the 0xA1 header.
HidFrameNoHeader(state) == state

\* append([]byte{0xA1}, state...)
HidFrame(state) == HidHeader \o state

\* A relay loop that gives the client up when a write to it fails.
SlotClearedOnWriteError(k) == NilClient

\* What HandleHID does to the slot when its Write fails: it logs the error.
SlotAfterWriteError(k) == k

\* client.Sintr.Write(frame), which succeeds or fails.
HidWrite ==
  /\ ~panicked
  /\ hidPc = "write"
  /\ LET s == hidClient.Sintr
     IN /\ MuAvailable(intrSock[s])
        /\ intrSock' = [intrSock EXCEPT ![s] = BtWrite(@, HidFrame(hidState))]
        /\ \E kernelOk \in BOOLEAN :
             IF BtWriteFails(intrSock[s], kernelOk)
             THEN /\ hidPc' = "writeFailed"
                  /\ kbClient' = SlotAfterWriteError(kbClient)
             ELSE /\ hidPc' = "read"
                  /\ UNCHANGED kbClient
  /\ hidState' = <<>>
  /\ hidClient' = NilClient
  /\ UNCHANGED <<svcVars, kbMu, envVars, done, ctrlSock, pc, arg, ret,
                 hsVars, clears, panicked>>
  /\ UNCHANGED addrVars

\* The failed Write is logged and the loop goes on: `continue`.
HidWriteContinue ==
  /\ ~panicked
  /\ hidPc = "writeFailed"
  /\ hidPc' = "read"
  /\ UNCHANGED <<kbClient, kbMu, envVars, done, ctrlSock, intrSock, pc, arg,
                 ret, hsVars, hidState, hidClient, clears, panicked, svcVars>>
  /\ UNCHANGED addrVars

\* -------------------------------------------------------------------- Spec
Next ==
  \/ \E d \in Devs : NewConnectionCall(d)
  \/ \E k \in ClientIds : AcceptLock(k)
  \/ \E k \in ClientIds, e \in Transient : AcceptRetry(k, e)
  \/ \E k \in ClientIds : AcceptFatal(k)
  \/ \E k \in ClientIds : AcceptOk(k)
  \/ \E k \in ClientIds, ok \in BOOLEAN : AcceptSetBlocking(k, ok)
  \/ \E k \in ClientIds : NewConnectionFail(k)
  \/ \E k \in ClientIds, ok \in BOOLEAN : NewSocketWrap(k, ok)
  \/ \E d \in Devs : MainRecvConnection(d)
  \/ \E d \in Devs : MainRecvDisconnection(d)
  \/ Connect
  \/ MainReject
  \/ \E p \in Procs : DisconnectLock(p)
  \/ \E p \in Procs : DisconnectCloseCtrl(p)
  \/ \E p \in Procs : DisconnectCloseIntr(p)
  \/ \E p \in Procs : DisconnectDefer(p)
  \/ \E c \in ClientIds : HandshakeStart(c)
  \/ \E c \in ClientIds : HandshakeSelect(c)
  \/ \E c \in ClientIds : HandshakeReadLock(c)
  \/ \E c \in ClientIds, b \in MsgBytes : HandshakeReadData(c, b)
  \/ \E c \in ClientIds : HandshakeReadError(c)
  \/ \E c \in ClientIds : HandshakeDispatch(c)
  \/ \E state \in Reports : HidRead(state)
  \/ HidWrite
  \/ HidWriteContinue
  \/ HidReadFails
  \/ HidContinue
  \/ \E s \in Stoppers : StopCall(s)
  \/ \E s \in Stoppers : StopOnce(s)
  \/ \E s \in Stoppers : StopClose(s)

Spec == Init /\ [][Next]_vars

\* The Keyboard under an owner that also calls the exported Disconnect with
\* a client it has connected, as the handshake loop does.
ApiNext ==
  \/ Next
  \/ \E c \in ClientIds : OwnerDisconnect(c)

ApiSpec == Init /\ [][ApiNext]_vars

\* The Go scheduler runs every goroutine that can run: each step of the code
\* that waits for nothing outside the process is taken.  What the outside
\* does (a connection, a request, a message, a report, a failing read of a
\* socket) is not: a Read may wait for ever.  The read of the USB device
\* returns within its timeout.
Fairness ==
  /\ \A k \in ClientIds :
       /\ WF_vars(AcceptLock(k))
       /\ WF_vars(\E ok \in BOOLEAN : AcceptSetBlocking(k, ok))
       /\ WF_vars(NewConnectionFail(k))
       /\ WF_vars(\E ok \in BOOLEAN : NewSocketWrap(k, ok))
  /\ WF_vars(\E d \in Devs : MainRecvConnection(d))
  /\ WF_vars(Connect)
  /\ WF_vars(MainReject)
  /\ \A p \in Procs :
       /\ WF_vars(DisconnectLock(p))
       /\ WF_vars(DisconnectCloseCtrl(p))
       /\ WF_vars(DisconnectCloseIntr(p))
       /\ WF_vars(DisconnectDefer(p))
  /\ \A c \in ClientIds :
       /\ WF_vars(HandshakeStart(c))
       /\ WF_vars(HandshakeSelect(c))
       /\ WF_vars(HandshakeReadLock(c))
       /\ WF_vars(HandshakeDispatch(c))
  /\ WF_vars(HidReadFails)
  /\ WF_vars(HidContinue)
  /\ WF_vars(HidWrite)
  /\ WF_vars(HidWriteContinue)
  /\ \A s \in Stoppers : WF_vars(StopOnce(s)) /\ WF_vars(StopClose(s))

FairSpec == Spec /\ Fairness

\* ------------------------------------------------------------- properties
\* Clients a Connect has put in the slot (it wrote a hello frame to them)
\* and no Disconnect has taken out (their done signal has not fired).
ConnectedClients ==
  {c \in ClientIds : ctrlSock[c].written # <<>> /\ done[c] = "open"}

\* C1: at every instant at most one client is connected, and it is the one
\* in the slot; a Connect(c2) that finds a client c1 in the slot returns "in
\* use", leaves c1 in the slot, writes nothing to c2's control socket and
\* starts no handshake loop for c2.
C1_SingleActiveClient ==
  [][ /\ Cardinality(ConnectedClients') <= 1
      /\ \A c \in ConnectedClients' : kbClient'.Done = c
      /\ (pc[MainProc] = "connect" /\ pc'[MainProc] # "connect"
          /\ kbClient # NilClient)
         => /\ kbClient' = kbClient
            /\ ret'[MainProc] = Ret("Connect", "inuse")
            /\ ctrlSock' = ctrlSock
            /\ pc'[arg[MainProc].Sctrl] = "none"
            /\ pc[arg[MainProc].Sctrl] = "none" ]_vars

\* A Connect has just been refused while another client holds the slot.
C1_Witness ==
  /\ pc[MainProc] = "reject"
  /\ ret[MainProc] = Ret("Connect", "inuse")
  /\ kbClient # NilClient
  /\ kbClient # arg[MainProc]
  /\ ctrlSock[arg[MainProc].Sctrl].written = <<>>

\* C2: a Disconnect(c) whose identity differs from the active client's
\* returns nil and changes nothing: the slot, every socket and every done
\* signal are as before, whatever the other goroutines are doing.
C2_ForeignDisconnectIsNoOp ==
  [][ \A p \in Procs :
        (pc[p] = "d_lock" /\ pc'[p] # "d_lock" /\ arg[p] # NilClient
         /\ kbClient # NilClient /\ arg[p].Dev # kbClient.Dev)
        => /\ ret'[p] = Ret("Disconnect", "nil")
           /\ pc'[p] = IF p = MainProc THEN "idle" ELSE "select"
           /\ kbClient' = kbClient
           /\ kbMu' = kbMu
           /\ ctrlSock' = ctrlSock
           /\ intrSock' = intrSock
           /\ done' = done
           /\ ~panicked' ]_vars

\* main's Disconnect for another device has returned nil and the active
\* client is untouched.
C2_Witness ==
  /\ pc[MainProc] = "idle"
  /\ ret[MainProc] = Ret("Disconnect", "nil")
  /\ kbClient # NilClient
  /\ done[kbClient.Done] = "open"
  /\ ctrlSock[kbClient.Sctrl].closes = 0
  /\ intrSock[kbClient.Sintr].closes = 0

\* C3: when a Disconnect of the active client returns, the slot is empty,
\* whichever of the two closes failed or neither; and the slot is emptied
\* exactly once for each client: a client taken out never holds it again.
C3_DisconnectAlwaysClears ==
  [][ /\ \A p \in Procs :
           (pc[p] = "d_defer" /\ pc'[p] # "d_defer")
           => /\ kbClient' = NilClient
              /\ clears'[kbClient.Done] = 1
              /\ ret'[p] \in {Ret("Disconnect", "nil"), Ret("Disconnect", "ctrl"),
                              Ret("Disconnect", "intr")}
      /\ \A c \in ClientIds : clears'[c] <= 1
      /\ kbClient' # NilClient => clears'[kbClient'.Done] = 0 ]_vars

\* A Disconnect whose close of the control socket failed has returned: the
\* interrupt socket was not closed, and yet the slot is empty.
C3_Witness ==
  \E c \in ClientIds :
    /\ pc[c] = "select"
    /\ ret[c] = Ret("Disconnect", "ctrl")
    /\ ctrlSock[c].closes = 1
    /\ intrSock[c].closes = 0
    /\ clears[c] = 1
    /\ done[c] = "closed"
    /\ kbClient = NilClient

\* C4: the Disconnect main performs for a disconnect event whose identity is
\* the active client's does not crash, and when it returns the active
\* client's two sockets are closed, its done signal has fired and the slot is
\* empty.
C4_EventDisconnectsActive ==
  [][ (pc[MainProc] \in {"d_ctrl", "d_intr", "d_defer"}
       /\ arg[MainProc] = IdentityClient(kbClient.Dev))
      => /\ ~panicked'
         /\ pc'[MainProc] = "idle"
            => /\ ctrlSock'[kbClient.Sctrl].closes = 1
               /\ intrSock'[kbClient.Sintr].closes = 1
               /\ done'[kbClient.Done] = "closed"
               /\ kbClient' = NilClient ]_vars

\* C5: a Disconnect(c) of a non-nil client c that finds the slot empty
\* returns nil, leaves the slot empty and does not crash.
C5_StaleDisconnectIsNoOp ==
  [][ \A p \in Procs :
        (pc[p] = "d_lock" /\ arg[p] # NilClient /\ kbClient = NilClient
         /\ kbMu = Free /\ (pc'[p] # "d_lock" \/ panicked'))
        => /\ ~panicked'
           /\ ret'[p] = Ret("Disconnect", "nil")
           /\ kbClient' = NilClient ]_vars

\* The transaction type of a message, as the HIDP header defines it: the
\* high nibble of its first byte.
HighNibble(b) == b \div 16

\* The step in which handshake loop c answers the message it has read.
Answers(c) == pc[c] = "dispatch" /\ pc'[c] # "dispatch"

\* The control sockets after exactly the frames fs were written to the
\* socket of loop c's client, and nothing to any other.
CtrlWritten(c, fs) ==
  ctrlSock' = [ctrlSock EXCEPT ![hsClient[c].Sctrl].written = @ \o fs]

\* C6: for every message whose first byte has high nibble 0x6 the handshake
\* loop writes exactly one frame, {0x00}, to the control socket, and nothing
\* else anywhere.
C6_SetProtocolReply ==
  [][ \A c \in ClientIds :
        (Answers(c) /\ HighNibble(r0[c]) = 6)
        => /\ CtrlWritten(c, << <<0>> >>)
           /\ intrSock' = intrSock ]_vars

\* The loop of a connected client has answered a 0x6X message with {0x00}.
C6_Witness ==
  \E c \in ClientIds :
    /\ pc[c] = "select"
    /\ HighNibble(r0[c]) = 6
    /\ ctrlSock[c].written = <<Hello1, Hello2, <<0>> >>

\* C7: for every message whose first byte has high nibble 0xA the handshake
\* loop writes nothing to the control socket.
C7_DataNoReply ==
  [][ \A c \in ClientIds :
        (Answers(c) /\ HighNibble(r0[c]) = 10) => ctrlSock' = ctrlSock ]_vars

\* C8: for every message whose first byte has a high nibble other than 0x6
\* and 0xA the handshake loop writes exactly one frame, {0x0e}, to the
\* control socket, and goes on with its loop.
C8_UnknownReply ==
  [][ \A c \in ClientIds :
        (Answers(c) /\ HighNibble(r0[c]) \notin {6, 10})
        => /\ CtrlWritten(c, << <<14>> >>)
           /\ pc'[c] = "select" ]_vars

\* The step in which HandleHID reads a report and takes its snapshot of the
\* slot.
ReadsReport ==
  /\ hidPc = "read"
  /\ events' # events
  /\ UNCHANGED <<nclients, pc, stopPc, call>>

\* C9: a report of length N read while a client is active causes exactly one
\* write, to that client's interrupt socket, of N + 1 bytes: 0xA1, then the
\* report's bytes in order.  A report read while no client is active causes
\* no write; and nothing but a report causes a write to an interrupt socket.
C9_ReportRelayed ==
  [][ /\ (ReadsReport /\ kbClient # NilClient)
         => /\ hidPc' = "write"
            /\ hidClient' = kbClient
            /\ hidState' \in Reports
      /\ (ReadsReport /\ kbClient = NilClient) => hidPc' = "read"
      /\ hidPc = "write" /\ hidPc' # "write"
         => /\ hidPc' \in {"read", "writeFailed"}
            /\ LET before == intrSock[hidClient.Sintr].written
                   after == intrSock'[hidClient.Sintr].written
                   frame == after[Len(after)]
               IN /\ after = Append(before, frame)
                  /\ Len(frame) = Len(hidState) + 1
                  /\ frame[1] = 161
                  /\ \A i \in 1..Len(hidState) : frame[i + 1] = hidState[i]
                  /\ intrSock' = [intrSock EXCEPT ![hidClient.Sintr].written =
                                    after]
      /\ ~(hidPc = "write" /\ hidPc' # "write")
         => \A c \in ClientIds : intrSock'[c].written = intrSock[c].written
    ]_vars

\* The report {4, 8} has been relayed to the active client as {0xA1, 4, 8}.
C9_Witness ==
  /\ hidPc = "read"
  /\ kbClient # NilClient
  /\ intrSock[kbClient.Sintr].written = << <<161, 4, 8>> >>

\* C10: a Connect that finds the slot empty takes the client, writes the two
\* hello frames in order before the handshake loop exists, and is never
\* refused as "in use"; one that finds it occupied is refused; a read error
\* on the control socket makes the loop call Disconnect with its client,
\* after which the slot is empty, so that the next Connect is accepted.
C10_ConnectAfterReadError ==
  [][ /\ (pc[MainProc] = "connect" /\ pc'[MainProc] # "connect")
         => LET c == arg[MainProc].Sctrl
            IN IF kbClient = NilClient
               THEN /\ kbClient' = arg[MainProc]
                    /\ ret'[MainProc].err # "inuse"
                    /\ ret'[MainProc] = Ret("Connect", "nil")
                       => /\ ctrlSock'[c].written = <<Hello1, Hello2>>
                          /\ pc[c] = "none"
                          /\ pc'[c] = "start"
               ELSE ret'[MainProc] = Ret("Connect", "inuse")
      /\ \A c \in ClientIds :
           /\ Len(ctrlSock'[c].written) > 2
              => /\ ctrlSock'[c].written[1] = Hello1
                 /\ ctrlSock'[c].written[2] = Hello2
           /\ (pc[c] = "inread" /\ pc'[c] # "inread" /\ pc'[c] # "dispatch")
              => /\ pc'[c] = "d_lock"
                 /\ arg'[c] = hsClient[c]
           /\ (pc[c] = "d_lock" /\ pc'[c] # "d_lock") => pc'[c] = "d_ctrl"
           /\ (pc[c] = "d_defer" /\ pc'[c] # "d_defer")
              => /\ kbClient = hsClient[c]
                 /\ kbClient' = NilClient ]_vars

\* Client 1 was connected and its loop disconnected it; client 2 was refused
\* meanwhile; client 3, of the same device as client 2, is now connected.
C10_Witness ==
  /\ kbClient = Client(2, 3)
  /\ ret[MainProc] = Ret("Connect", "nil")
  /\ ctrlSock[3].written = <<Hello1, Hello2>>
  /\ done[1] = "closed"
  /\ clears[1] = 1
  /\ ctrlSock[1].written = <<Hello1, Hello2>>
  /\ ctrlSock[2].written = <<>>
  /\ ctrlSock[2].closes = 1

\* C11: once Stop has closed the USB device, the relay loop HandleHID
\* eventually terminates: its read of the closed device fails and the loop
\* leaves on that error instead of reading again.
C11_StopEndsRelay ==
  /\ [][(hidPc = "failed" /\ devCloses > 0) => hidPc' # "read"]_vars
  /\ (once = "done" /\ ~panicked) ~> (hidPc = "exited" \/ panicked)

\* C12: Stop closes the USB device exactly once however many calls there
\* are and however they overlap: the first call closes it, and a call that
\* comes after returns without changing anything of the Keyboard.
C12_StopIdempotent ==
  [][ /\ devCloses' <= 1
      /\ (once' = "done") <=> (devCloses' = 1)
      /\ \A s \in Stoppers :
           /\ (stopPc[s] = "infn" /\ stopPc'[s] # "infn")
              => devCloses = 0 /\ devCloses' = 1
           /\ (stopPc[s] = "do" /\ stopPc'[s] = "returned")
              => /\ once = "done"
                 /\ UNCHANGED <<kbVars, once, devCloses>> ]_vars

\* Two goroutines have both called Stop and both calls have returned; the
\* device was closed once.
C12_Witness ==
  /\ \A s \in Stoppers : stopPc[s] = "returned"
  /\ once = "done"
  /\ devCloses = 1

\* C13: a transient result of the kernel accept (EAGAIN, ECONNABORTED) never
\* ends Accept and never reaches its caller: the call stays in the loop,
\* still holding mu.  When the kernel accept succeeds after any number of
\* them, Accept eventually returns, and (its setting of the non-blocking
\* mode succeeding) what it returns is the accepted connection, open, with
\* no error.  A call is once in Accept, so "every Accept whose kernel accept
\* succeeded returns" is "in the end no call is left after its kernel accept
\* and before its return".
C13_AcceptRetries ==
  /\ [][ \A k \in ClientIds :
           /\ call'[k].err \notin Transient
           /\ (call[k].pc = "accept" /\ call'[k].tries > call[k].tries)
              => /\ call'[k].pc = "accept"
                 /\ call'[k].ret = "none"
                 /\ acceptMu' = k
           /\ (call[k].pc = "setblock" /\ call'[k].pc \notin {"setblock", "failed"})
              => /\ call'[k].pc = "wrap"
                 /\ call'[k].sintr = k
                 /\ call'[k].err = "nil"
                 /\ call'[k].ret = "none"
                 /\ intrSock'[k].closes = 0
                 /\ listener' = listener
                 /\ acceptMu' = Free ]_vars
  /\ <>[](panicked \/ \A k \in ClientIds : call[k].pc # "setblock")

\* An Accept has returned the accepted connection after as many transient
\* results as the bound allows.
C13_Witness ==
  \E k \in ClientIds :
    /\ call[k].pc = "wrap"
    /\ call[k].tries = MaxRetries
    /\ call[k].sintr = k
    /\ intrSock[k].closes = 0
    /\ acceptMu = Free

\* The step in which main receives a client from p.connection.
Publishes == pc[MainProc] = "idle" /\ pc'[MainProc] = "connect"

\* C16: when the Accept of a NewConnection call fails, the call closes the
\* interrupt listener and returns an error to the bus, and no client is
\* published for it, in that step or ever after.
C16_AcceptFailureClosesListener ==
  [][ \A k \in ClientIds :
        /\ (call[k].pc = "failed" /\ call'[k].pc # "failed")
           => /\ call'[k].pc = "returned"
              /\ call'[k].ret = "accept failed"
              /\ listener'.closes = listener.closes + 1
              /\ ~Publishes
        /\ call[k].ret = "accept failed"
           => /\ call'[k] = call[k]
              /\ listener'.closes > 0
              /\ \A p \in Procs : arg'[p].Done # k
              /\ kbClient'.Done # k ]_vars

\* A NewConnection call has returned the error of its failed Accept; the
\* listener is closed and main has received nothing.
C16_Witness ==
  \E k \in ClientIds :
    /\ call[k].pc = "returned"
    /\ call[k].ret = "accept failed"
    /\ listener.closes = 1
    /\ pc[MainProc] = "idle"
    /\ arg[MainProc] = NilClient

InDisconnect == {p \in Procs : pc[p] \in {"d_lock", "d_ctrl", "d_intr", "d_defer"}}

\* The done signal of client c fires in this step.
Fires(c) == done[c] = "open" /\ done'[c] = "closed"

\* The part of C14 about who fires a done signal: it fires only in a step of
\* a Disconnect whose argument has the identity of the active client c, and
\* a fired signal stays fired, so it fires once.
C14_FiredByDisconnectOnly ==
  [][ \A c \in ClientIds :
        /\ Fires(c) => \E p \in InDisconnect :
                         /\ kbMu = p
                         /\ kbClient.Done = c
                         /\ arg[p].Dev = kbClient.Dev
                         /\ clears'[c] = 1
        /\ done[c] = "closed" => done'[c] = "closed" ]_vars

\* C14: the done signal of a client is fired once, by a Disconnect of that
\* client and by nothing else, and once it has fired the handshake loop
\* serving the client eventually exits: the process never dies with a fired
\* signal and its loop still running.
C14_DoneFiresOnceAndEndsLoop ==
  /\ C14_FiredByDisconnectOnly
  /\ [](\A c \in ClientIds :
         (panicked /\ done[c] = "closed") => pc[c] \in {"none", "exited"})
  /\ \A c \in ClientIds :
       (done[c] = "closed" /\ pc[c] # "none") ~> (pc[c] = "exited")

\* C15: a Close on a socket that an earlier Close has closed issues no kernel
\* close on its descriptor again (it fails with EINVAL before the kernel is
\* asked).  The listener and the interrupt sockets are closed by
\* Bluetooth.Close only, so for them every kernel close is one of Close.
C15_CloseOfClosedIsEinval ==
  [][ /\ listener.closes > 0 => listener'.closes = listener.closes
      /\ \A k \in ClientIds :
           intrSock[k].closes > 0 => intrSock'[k].closes = intrSock[k].closes ]_vars

\* C18: packing an L2CAP address into the raw structure and unpacking the
\* raw structure yields the same PSM and the same six address bytes in the
\* same order, and the family of the packed structure is the Bluetooth
\* family.
C18_AddressRoundTrip ==
  /\ addrPc \in {"packed", "unpacked"} => saddr.raw.Family = AF_BLUETOOTH
  /\ addrPc = "unpacked"
     => /\ rAddr.PSM = saddr.PSM
        /\ Len(rAddr.Bdaddr) = 6
        /\ \A i \in 1..6 : rAddr.Bdaddr[i] = saddr.Bdaddr[i]

\* PSM 0x13 and address {1,2,3,4,5,6} have gone through both ways.
C18_Witness ==
  /\ addrPc = "unpacked"
  /\ saddr.PSM = 19
  /\ saddr.Bdaddr = <<1, 2, 3, 4, 5, 6>>
  /\ rAddr.PSM = 19
  /\ rAddr.Bdaddr = <<1, 2, 3, 4, 5, 6>>

\* The handshake loops that have read their client and not yet returned.
Serving == {c \in ClientIds : pc[c] \notin {"none", "start", "exited"}}

\* C19: the loop started by a successful Connect(A) serves A, reading A's
\* control socket and watching A's done signal, and no two loops serve the
\* same client.
C19_LoopServesItsClient ==
  /\ \A c \in Serving :
       /\ hsClient[c].Sctrl = c
       /\ hsClient[c].Done = c
  /\ \A c1, c2 \in Serving : hsClient[c1] = hsClient[c2] => c1 = c2

\* The socket mutex the Disconnect of process p is about to take in Close,
\* Free when p is not in front of a Close.
ClosingMu(p) ==
  IF pc[p] = "d_ctrl" /\ arg[p].Sctrl # 0 THEN ctrlSock[arg[p].Sctrl].mu
  ELSE IF pc[p] = "d_intr" /\ arg[p].Sintr # 0 THEN intrSock[arg[p].Sintr].mu
  ELSE Free

\* C20: a Disconnect of the active client is never suspended: it never
\* stands, holding the Keyboard's mutex that Client() needs, in front of a
\* Close whose socket mutex is held by a Read waiting for data.
C20_DisconnectNeverSuspends ==
  \A p \in Procs : kbMu = p => ClosingMu(p) \in {Free, p}

\* C21: a Disconnect of the active client has asked the kernel to close both
\* the control and the interrupt socket of its client when it returns,
\* whether or not the close of the control socket failed.
C21_DisconnectClosesBoth ==
  [][ \A p \in Procs :
        (pc[p] = "d_defer" /\ pc'[p] # "d_defer" /\ arg[p].Sctrl # 0)
        => /\ ctrlSock[arg[p].Sctrl].closes > 0
           /\ intrSock[arg[p].Sintr].closes > 0 ]_vars

\* C23: Read, Write, Close and SetBlocking exclude each other on a socket.
\* A loop inside Read holds the mutex of the socket it reads; a Write or a
\* Close reaches the kernel only while no operation holds the mutex; and the
\* mutex goes from one holder to another only through being free.
C23_SocketOpsExclusive ==
  [][ /\ \A c \in ClientIds :
           pc[c] = "inread" => ctrlSock[hsClient[c].Sctrl].mu = c
      /\ \A k \in ClientIds :
           /\ (ctrlSock'[k].written # ctrlSock[k].written
                \/ (ctrlSock'[k].closes # ctrlSock[k].closes /\ call[k].pc # "wrap"))
              => ctrlSock[k].mu = Free
           /\ (intrSock'[k].written # intrSock[k].written
                \/ intrSock'[k].closes # intrSock[k].closes)
              => intrSock[k].mu = Free
           /\ ctrlSock'[k].mu # ctrlSock[k].mu
              => (ctrlSock[k].mu = Free \/ ctrlSock'[k].mu = Free)
      /\ listener'.closes # listener.closes => listener.mu = Free ]_vars

\* A Disconnect stands in front of the Close of a control socket whose
\* mutex the handshake loop holds inside Read.
C23_Witness ==
  \E p \in Procs, c \in ClientIds :
    /\ pc[p] = "d_ctrl"
    /\ arg[p].Sctrl = hsClient[c].Sctrl
    /\ pc[c] = "inread"
    /\ ctrlSock[hsClient[c].Sctrl].mu = c
    /\ ctrlSock[hsClient[c].Sctrl].closes = 0

\* C22: Accept holds the process-wide mutex only around the kernel accept:
\* a retry after EAGAIN or ECONNABORTED gives the mutex up, so that another
\* Accept can take it.
C22_AcceptRetryReleasesMu ==
  [][ \A k \in ClientIds :
        (call[k].pc = "accept" /\ call'[k].tries > call[k].tries)
        => acceptMu' = Free ]_vars

\* C24: a failed write of a report leaves the Keyboard as it was: the slot
\* holds the same client, no process enters Disconnect, no socket is closed
\* and no done signal fires; and the loop goes on to the next read.
C24_FailedWriteChangesNothing ==
  [][ /\ (hidPc = "write" /\ hidPc' = "writeFailed")
         => /\ kbClient' = kbClient
            /\ UNCHANGED <<pc, arg, done, clears, ctrlSock, panicked>>
            /\ \A k \in ClientIds : intrSock'[k].closes = intrSock[k].closes
      /\ (hidPc = "writeFailed" /\ hidPc' # "writeFailed")
         => /\ hidPc' = "read"
            /\ UNCHANGED <<kbClient, pc, arg, done, clears, ctrlSock, intrSock,
                           panicked>> ]_vars

\* A write to the open interrupt socket of the active client has failed;
\* the client is still in the slot, its sockets open, its done signal unfired.
C24_Witness ==
  /\ hidPc = "writeFailed"
  /\ kbClient # NilClient
  /\ Len(intrSock[kbClient.Sintr].written) = 1
  /\ intrSock[kbClient.Sintr].closes = 0
  /\ ctrlSock[kbClient.Sctrl].closes = 0
  /\ done[kbClient.Done] = "open"
  /\ ~panicked

\* C25: no descriptor is passed to the kernel's close a second time.
C25_DescriptorsClosedOnce ==
  /\ listener.closes <= 1
  /\ \A k \in ClientIds : ctrlSock[k].closes <= 1 /\ intrSock[k].closes <= 1

\* C26: a Connect that returns an error leaves the slot as it found it.
C26_FailedConnectKeepsSlot ==
  [][ (pc[MainProc] = "connect" /\ pc'[MainProc] = "reject")
      => kbClient' = kbClient ]_vars

\* C27: the relay loop never writes a report to an interrupt socket that
\* Disconnect has closed.  The sockets of a client whose Connect succeeded,
\* one that has a handshake loop, are closed by Disconnect only.
C27_NoWriteAfterClose ==
  [][ (hidPc = "write" /\ hidPc' # "write" /\ pc[hidClient.Sctrl] # "none")
      => intrSock[hidClient.Sintr].closes = 0 ]_vars

====
